---------------------------- MODULE Spec2Model ----------------------------
(***************************************************************************)
(* pingdom-aws-sg-whitelister.py: one run of the script fetches the        *)
(* Pingdom probe list, keeps the IPv4 probes of the configured region as   *)
(* /32 CIDRs, reads the tcp/443 ingress rules of one AWS security group,   *)
(* revokes the stale rules, authorizes the missing ones and posts a Slack  *)
(* message.  The security group outlives a run; an external scheduler      *)
(* starts the next run.                                                    *)
(*                                                                         *)
(* An IPv4 address is the tuple of its four octets, the sentinel "NULL" of *)
(* the probe feed is the empty tuple, and a CIDR string "a.b.c.d/n" is the *)
(* record [ip |-> <<a,b,c,d>>, prefix |-> n].                              *)
(***************************************************************************)
EXTENDS Integers, Sequences, FiniteSets, TLC

\* ------------------------------------------------------------ constants
AWS_SG_RULE_LIMIT == 60
AWS_SG_RULE_PORT == 443

\* ------------------------------------------------------------ bounds
\* Size of the block of region-"NA" probes that brings lists next to the limit.
BulkSize == 59
\* Most probes listed besides the block.
MaxExtra == 2

\* ------------------------------------------------------------ input data
NULL == <<>>

Cidr(ip, n) == [ip |-> ip, prefix |-> n]

IpA == <<10, 0, 0, 200>>
IpB == <<9, 0, 1, 7>>
NetC == Cidr(<<10, 0, 1, 0>>, 24)

Regions == {"NA", "EU"}

Probe(r, ip) == [region |-> r, ip |-> ip]

\* The block as the feed lists it: descending addresses 10.0.0.BulkSize .. 10.0.0.1.
BulkProbes == [i \in 1..BulkSize |-> Probe("NA", <<10, 0, 0, BulkSize + 1 - i>>)]

BulkCidrs == {Cidr(<<10, 0, 0, i>>, 32) : i \in 1..BulkSize}

ExtraProbes == {Probe("NA", IpA), Probe("NA", IpB), Probe("NA", NULL),
                Probe("EU", IpA)}

SeqsUpTo(S, n) == UNION {[1..k -> S] : k \in 0..n}

\* The IpPermissions of the group, by (IpProtocol, FromPort).
PermTcp443 == [IpProtocol |-> "tcp", FromPort |-> AWS_SG_RULE_PORT]
PermTcp80 == [IpProtocol |-> "tcp", FromPort |-> 80]
PermUdp443 == [IpProtocol |-> "udp", FromPort |-> AWS_SG_RULE_PORT]
Perms == {PermTcp443, PermTcp80, PermUdp443}
\* The order describe_security_groups lists them in.
IpPermissions == <<PermTcp80, PermTcp443, PermUdp443>>

\* ------------------------------------------------------------ helpers
ToSet(s) == {s[i] : i \in DOMAIN s}

Reverse(s) == [i \in 1..Len(s) |-> s[Len(s) + 1 - i]]

\* An iteration order of a set (Python's set and the EC2 answer's list order
\* are arbitrary: here by last octet first).
IterKey(c) == <<c.ip[4] * 65536 + c.ip[3] * 256 + c.ip[2], c.ip[1] * 64 + c.prefix>>

SetToSeq(S) ==
    LET keys == {<<IterKey(x), x>> : x \in S}
        Before(a, b) == \/ a[1][1] < b[1][1]
                        \/ a[1][1] = b[1][1] /\ a[1][2] < b[1][2]
        placed == {<<Cardinality({a \in keys : Before(a, b)}) + 1, b[2]>> :
                      b \in keys}
    IN  [r \in 1..Cardinality(S) |-> (CHOOSE p \in placed : p[1] = r)[2]]

\* int(IPv4Address)
IpToInt(ip) == ip[1] * 16777216 + ip[2] * 65536 + ip[3] * 256 + ip[4]

\* The sort key ipaddress.ip_network gives: (network address, netmask).
NetworkKey(c) == <<IpToInt(c.ip), c.prefix>>

KeyLess(a, b) ==
    LET ka == NetworkKey(a)
        kb == NetworkKey(b)
    IN  ka[1] < kb[1] \/ (ka[1] = kb[1] /\ ka[2] < kb[2])

\* sorted(xs, key=ipaddress.ip_network): Python's sort is a stable merge sort;
\* of two elements of equal key the one of the left run goes first.
RECURSIVE Merge(_, _)
Merge(a, b) ==
    IF a = <<>> THEN b
    ELSE IF b = <<>> THEN a
    ELSE IF KeyLess(Head(b), Head(a))
    THEN <<Head(b)>> \o Merge(a, Tail(b))
    ELSE <<Head(a)>> \o Merge(Tail(a), b)

RECURSIVE sorted(_)
sorted(s) ==
    IF Len(s) <= 1 THEN s
    ELSE LET m == Len(s) \div 2
         IN  Merge(sorted(SubSeq(s, 1, m)), sorted(SubSeq(s, m + 1, Len(s))))

\* ------------------------------------------------------------ pure functions
\* Mutant: the probes of every region are kept.
extract_any_region(data, region) ==
    LET Active(probe) == probe.ip # NULL
        kept == SelectSeq(data, Active)
        cidrs == [i \in 1..Len(kept) |-> Cidr(kept[i].ip, 32)]
    IN  sorted(cidrs)

\* extract_pingdom_region_ipv4(data, region)
extract_pingdom_region_ipv4(data, region) ==
    LET Active(probe) == probe.region = region /\ probe.ip # NULL
        kept == SelectSeq(data, Active)
        cidrs == [i \in 1..Len(kept) |-> Cidr(kept[i].ip, 32)]
    IN  sorted(cidrs)

\* The loop of get_sg_ingress_rules over IpPermissions.
RECURSIVE CollectRules(_, _)
CollectRules(group, perms) ==
    IF perms = <<>> THEN <<>>
    ELSE LET perm == Head(perms)
             ranges == IF perm.IpProtocol = "tcp" /\ perm.FromPort = AWS_SG_RULE_PORT
                       THEN SetToSeq(group[perm])
                       ELSE <<>>
         IN  ranges \o CollectRules(group, Tail(perms))

get_sg_ingress_rules(group) == sorted(CollectRules(group, IpPermissions))

\* Mutant: the additions are filtered out of the list as it stands, without
\* set() and sorted().
diff_to_add_list(after_cidrs, current) ==
    LET Missing(c) == c \notin ToSet(current)
    IN  SelectSeq(after_cidrs, Missing)

\* to_add and to_remove of replace_sg_ingress_rules
diff_to_add(after_cidrs, current) ==
    sorted(SetToSeq(ToSet(after_cidrs) \ ToSet(current)))

\* Mutant: every current rule is revoked, not only the stale ones.
diff_to_remove_all(after_cidrs, current) == sorted(SetToSeq(ToSet(current)))

\* Mutant: the operands of the difference are swapped.
diff_to_remove_swapped(after_cidrs, current) ==
    sorted(SetToSeq(ToSet(after_cidrs) \ ToSet(current)))

diff_to_remove(after_cidrs, current) ==
    sorted(SetToSeq(ToSet(current) \ ToSet(after_cidrs)))

\* Mutant: the rules are authorized before the stale ones are revoked.
replace_order_swapped == <<"authorize", "revoke">>

\* The order of the two mutating blocks of replace_sg_ingress_rules.
replace_order == <<"revoke", "authorize">>

\* Mutant: the distinct addresses are counted.
OverLimitDistinct(cidrs) == Cardinality(ToSet(cidrs)) > AWS_SG_RULE_LIMIT

\* `if len(new_cidrs) > AWS_SG_RULE_LIMIT` of main
OverLimit(cidrs) == Len(cidrs) > AWS_SG_RULE_LIMIT

\* Mutant: the dry-run flag is not looked at.
CallIssuedInDryRun(delta, dry_run) == delta # <<>>

\* `if to_remove:` ... `if not DRY_RUN:` and the same for to_add
CallIssued(delta, dry_run) == delta # <<>> /\ ~dry_run

\* Mutant: the alert is never sent.
AlertNever(dry_run) == FALSE

\* `if not DRY_RUN: send_slack_alert(alert_msg)` of main
AlertAttempted(dry_run) == ~dry_run

\* Mutant: the request's exception and the non-ok answer are not caught.
send_slack_alert_uncaught(token, outcome) ==
    IF ~token \/ outcome # "delivered" THEN "exit1" ELSE "return"

\* How send_slack_alert ends: it exits when the token is missing, and returns
\* otherwise, the request's exceptions and a non-ok answer being caught.
send_slack_alert_end(token, outcome) ==
    IF ~token THEN "exit1" ELSE "return"

\* ------------------------------------------------------------ state
VARIABLES
    DRY_RUN,          \* env DRY_RUN
    PINGDOM_REGION,   \* env PINGDOM_REGION
    probes,           \* the "probes" list the Pingdom API answers with
    sg,               \* the security group: permission -> set of CIDRs
    pc,               \* where the run is
    step,             \* which block of replace_sg_ingress_rules is next
    new_cidrs,        \* main's new_cidrs
    current_cidrs,    \* main's current_cidrs
    to_add,
    to_remove,
    message,          \* the Slack message about to be sent: "alert" or "success"
    exit_status,      \* the process's exit status, -1 while it runs
    path,             \* the way the run went
    calls,            \* the mutating EC2 calls of the run, in order
    slack,            \* the send_slack_alert calls of the run, in order
    sg_start,         \* the security group when the run started
    prev              \* how the run before went ("none": there was none)

vars == <<DRY_RUN, PINGDOM_REGION, probes, sg, pc, step,
          new_cidrs, current_cidrs, to_add, to_remove, message, exit_status,
          path, calls, slack, sg_start, prev>>

env == <<DRY_RUN, PINGDOM_REGION, probes>>
locals == <<new_cidrs, current_cidrs, to_add, to_remove>>
history == <<sg_start, prev>>

Init ==
    /\ DRY_RUN \in BOOLEAN
    /\ PINGDOM_REGION \in Regions
    /\ \E bulk \in BOOLEAN, extra \in SeqsUpTo(ExtraProbes, MaxExtra) :
          probes = (IF bulk THEN BulkProbes ELSE <<>>) \o extra
    /\ \E bulk \in BOOLEAN, S \in SUBSET {Cidr(IpA, 32), Cidr(IpB, 32), NetC} :
          sg = [p \in Perms |->
                  IF p = PermTcp443 THEN (IF bulk THEN BulkCidrs ELSE {}) \cup S
                  ELSE IF p = PermTcp80 THEN {Cidr(IpA, 32), NetC}
                  ELSE {Cidr(IpB, 32)}]
    /\ pc = "fetch"
    /\ step = 1
    /\ new_cidrs = <<>>
    /\ current_cidrs = <<>>
    /\ to_add = <<>>
    /\ to_remove = <<>>
    /\ message = "none"
    /\ exit_status = -1
    /\ path = "running"
    /\ calls = <<>>
    /\ slack = <<>>
    /\ sg_start = sg
    /\ prev = "none"

\* The process ends with `status` after going `way`.
Exit(status, way) ==
    /\ pc' = "done"
    /\ exit_status' = status
    /\ path' = way

\* main, lines 148-149: the probe list is fetched and filtered, or
\* raise_for_status / the request raises and the run dies.
fetch_pingdom_probes ==
    /\ pc = "fetch"
    /\ \/ /\ new_cidrs' = extract_pingdom_region_ipv4(probes, PINGDOM_REGION)
          /\ pc' = "get_sg"
          /\ UNCHANGED <<exit_status, path>>
       \/ /\ Exit(1, "fetch_error")
          /\ UNCHANGED new_cidrs
    /\ UNCHANGED <<env, sg, step, current_cidrs, to_add, to_remove, message,
                   calls, slack, history>>

\* main, line 155: describe_security_groups answers, or raises.
GetSgIngressRules ==
    /\ pc = "get_sg"
    /\ \/ /\ current_cidrs' = get_sg_ingress_rules(sg)
          /\ pc' = "main"
          /\ UNCHANGED <<exit_status, path>>
       \/ /\ Exit(1, "sg_error")
          /\ UNCHANGED current_cidrs
    /\ UNCHANGED <<env, sg, step, new_cidrs, to_add, to_remove, message,
                   calls, slack, history>>

\* main, lines 160-180.
MainCheck ==
    /\ pc = "main"
    /\ IF new_cidrs = current_cidrs
       THEN Exit(0, "no_change") /\ UNCHANGED message
       ELSE IF OverLimit(new_cidrs)
       THEN IF AlertAttempted(DRY_RUN)
            THEN /\ pc' = "slack"
                 /\ message' = "alert"
                 /\ path' = "over_limit"
                 /\ UNCHANGED exit_status
            ELSE Exit(1, "over_limit") /\ UNCHANGED message
       ELSE /\ pc' = "diff"
            /\ UNCHANGED <<message, exit_status, path>>
    /\ UNCHANGED <<env, sg, step, locals, calls, slack, history>>

\* replace_sg_ingress_rules, lines 78-83; the early return leads back to main,
\* which goes on to line 182.
ReplaceDiff ==
    /\ pc = "diff"
    /\ to_add' = diff_to_add(new_cidrs, current_cidrs)
    /\ to_remove' = diff_to_remove(new_cidrs, current_cidrs)
    /\ IF to_add' = <<>> /\ to_remove' = <<>>
       THEN /\ pc' = "slack"
            /\ message' = "success"
            /\ path' = "no_diff"
       ELSE /\ pc' = "replace"
            /\ UNCHANGED <<message, path>>
    /\ step' = 1
    /\ UNCHANGED <<env, sg, new_cidrs, current_cidrs, exit_status, calls, slack,
                   history>>

Call(op, delta, ok) ==
    [op |-> op, cidrs |-> ToSet(delta), before |-> sg[PermTcp443], ok |-> ok]

\* replace_sg_ingress_rules, lines 86-98.
Revoke ==
    /\ pc = "replace"
    /\ step <= Len(replace_order)
    /\ replace_order[step] = "revoke"
    /\ IF CallIssued(to_remove, DRY_RUN)
       THEN \E ok \in BOOLEAN :
              /\ calls' = Append(calls, Call("revoke", to_remove, ok))
              /\ IF ok
                 THEN /\ sg' = [sg EXCEPT ![PermTcp443] = @ \ ToSet(to_remove)]
                      /\ step' = step + 1
                      /\ UNCHANGED <<pc, exit_status, path>>
                 ELSE /\ Exit(1, "revoke_error")
                      /\ UNCHANGED <<sg, step>>
       ELSE /\ step' = step + 1
            /\ UNCHANGED <<sg, pc, exit_status, path, calls>>
    /\ UNCHANGED <<env, locals, message, slack, history>>

\* replace_sg_ingress_rules, lines 101-113.  EC2 refuses a rule the group
\* already has (InvalidPermission.Duplicate).
Authorize ==
    /\ pc = "replace"
    /\ step <= Len(replace_order)
    /\ replace_order[step] = "authorize"
    /\ IF CallIssued(to_add, DRY_RUN)
       THEN \E ok \in (IF ToSet(to_add) \cap sg[PermTcp443] = {}
                       THEN BOOLEAN ELSE {FALSE}) :
              /\ calls' = Append(calls, Call("authorize", to_add, ok))
              /\ IF ok
                 THEN /\ sg' = [sg EXCEPT ![PermTcp443] = @ \cup ToSet(to_add)]
                      /\ step' = step + 1
                      /\ UNCHANGED <<pc, exit_status, path>>
                 ELSE /\ Exit(1, "authorize_error")
                      /\ UNCHANGED <<sg, step>>
       ELSE /\ step' = step + 1
            /\ UNCHANGED <<sg, pc, exit_status, path, calls>>
    /\ UNCHANGED <<env, locals, message, slack, history>>

\* replace_sg_ingress_rules, lines 115-117, and the return to main, line 182.
ReplaceEnd ==
    /\ pc = "replace"
    /\ step > Len(replace_order)
    /\ IF DRY_RUN
       THEN Exit(0, "dry_run") /\ UNCHANGED message
       ELSE /\ pc' = "slack"
            /\ message' = "success"
            /\ path' = "updated"
            /\ UNCHANGED exit_status
    /\ UNCHANGED <<env, sg, step, locals, calls, slack, history>>

\* send_slack_alert, and what main does after it: sys.exit(1) after the alert
\* (line 177), the end of main after the success message (line 190).
\* SLACK_BOT_TOKEN is read from the environment: set or not.
send_slack_alert ==
    /\ pc = "slack"
    /\ \E SLACK_BOT_TOKEN \in BOOLEAN :
       \E outcome \in (IF SLACK_BOT_TOKEN
                       THEN {"delivered", "request_error", "not_ok"}
                       ELSE {"no_token"}) :
          /\ slack' = Append(slack, [kind |-> message, outcome |-> outcome])
          /\ exit_status' =
                IF send_slack_alert_end(SLACK_BOT_TOKEN, outcome) = "exit1" THEN 1
                ELSE IF message = "alert" THEN 1
                ELSE 0
    /\ pc' = "done"
    /\ UNCHANGED <<env, sg, step, locals, message, path, calls, history>>

\* The run was no dry-run, its desired list was within the limit and every
\* call it made to EC2 succeeded.
Applied ==
    /\ pc = "done"
    /\ ~DRY_RUN
    /\ path \notin {"fetch_error", "sg_error", "revoke_error", "authorize_error"}
    /\ Len(new_cidrs) <= AWS_SG_RULE_LIMIT

\* The scheduler starts the next run: the same environment and probe list,
\* the security group as the run before left it.
NextRun ==
    /\ pc = "done"
    /\ pc' = "fetch"
    /\ step' = 1
    /\ new_cidrs' = <<>>
    /\ current_cidrs' = <<>>
    /\ to_add' = <<>>
    /\ to_remove' = <<>>
    /\ message' = "none"
    /\ exit_status' = -1
    /\ path' = "running"
    /\ calls' = <<>>
    /\ slack' = <<>>
    /\ sg_start' = sg
    /\ prev' = IF ~Applied THEN "other"
                ELSE IF calls # <<>> THEN "updated"
                ELSE "in_sync"
    /\ UNCHANGED <<env, sg>>

Next ==
    \/ fetch_pingdom_probes
    \/ GetSgIngressRules
    \/ MainCheck
    \/ ReplaceDiff
    \/ Revoke
    \/ Authorize
    \/ ReplaceEnd
    \/ send_slack_alert
    \/ NextRun

Spec == Init /\ [][Next]_vars

\* ------------------------------------------------------------ properties
Rules443 == sg[PermTcp443]

Desired == ToSet(new_cidrs)

Current == ToSet(current_cidrs)

\* The run reached the comparison of main, line 160: both reads succeeded.
ReadsDone == pc \in {"main", "diff", "replace", "slack"} \/
             (pc = "done" /\ path \notin {"fetch_error", "sg_error"})

\* replace_sg_ingress_rules has just computed to_add and to_remove (lines
\* 78-81); the four lists stay as they are for the rest of the run.
DiffDone == (pc = "replace" /\ step = 1) \/ (pc = "slack" /\ path = "no_diff")

\* C1: in a dry-run no revoke or authorize call is issued, and the security
\* group is at every step of the run what it was when the run started.
C1_DryRunNeverMutates == DRY_RUN => calls = <<>> /\ sg = sg_start

\* A dry-run that found rules to add and rules to remove, and ended.
C1_Witness ==
    /\ DRY_RUN
    /\ pc = "done"
    /\ path = "dry_run"
    /\ to_add # <<>>
    /\ to_remove # <<>>

\* C2: when the desired list is longer than AWS_SG_RULE_LIMIT no revoke or
\* authorize call is issued, whatever the group holds and whatever DRY_RUN is.
C2_OverLimitNeverMutates ==
    Len(new_cidrs) > AWS_SG_RULE_LIMIT => calls = <<>> /\ sg = sg_start

\* A run that is no dry-run ended with a desired list over the limit that
\* differs from the group's rules.
C2_Witness ==
    /\ pc = "done"
    /\ ~DRY_RUN
    /\ Len(new_cidrs) > AWS_SG_RULE_LIMIT
    /\ Desired # Current
    /\ path = "over_limit"

\* C3: after a run that is no dry-run, whose desired list is within the limit
\* and whose EC2 calls all succeeded, the tcp/443 rules of the group are the
\* desired addresses; the run after such a run issues no mutating call.
C3_AppliedRunSyncs ==
    /\ Applied => Rules443 = Desired
    /\ prev \in {"in_sync", "updated"} => calls = <<>>

\* A run that revoked and authorized was followed by a run that ended with
\* the group in sync.
C3_Witness ==
    /\ prev = "updated"
    /\ Applied
    /\ Rules443 # {}

\* C4: a run applies only the delta.  No desired address is revoked, no
\* address the group holds is authorized, and an address both desired and
\* current is in no call and stays in the group at every step.
C4_OnlyDelta ==
    /\ \A i \in DOMAIN calls :
          /\ calls[i].op = "revoke" => calls[i].cidrs \cap Desired = {}
          /\ calls[i].op = "authorize" => calls[i].cidrs \cap calls[i].before = {}
          /\ calls[i].cidrs \cap (Desired \cap Current) = {}
    /\ (Desired \cap Current) \subseteq Rules443

\* A run revoked and authorized while some rule was both desired and current.
C4_Witness ==
    /\ pc = "done"
    /\ Len(calls) = 2
    /\ calls[1].ok
    /\ calls[2].ok
    /\ Desired \cap Current # {}

\* Rearrangements of a list: every permutation of a short list and the list
\* doubled; a long list rotated by one, and reversed with the list after it.
Permuted(s) ==
    {[i \in DOMAIN s |-> s[f[i]]] :
        f \in {g \in [DOMAIN s -> DOMAIN s] : \A i, j \in DOMAIN s : g[i] = g[j] => i = j}}

Rearranged(s) ==
    IF Len(s) <= 3 THEN Permuted(s) \cup {s \o s}
    ELSE {Tail(s) \o <<Head(s)>>, Reverse(s) \o s}

\* C5: when the diff has been computed the additions are the desired addresses that are not current, the
\* removals the current ones that are not desired, the two share nothing, and
\* neither changes when the elements of an input list are permuted or repeated.
C5_DiffOrderIndependent ==
    DiffDone =>
      /\ ToSet(to_add) = Desired \ Current
      /\ ToSet(to_remove) = Current \ Desired
      /\ ToSet(to_add) \cap ToSet(to_remove) = {}
      /\ \A a \in Rearranged(new_cidrs), c \in Rearranged(current_cidrs) :
            /\ diff_to_add(a, c) = to_add
            /\ diff_to_remove(a, c) = to_remove

\* The diff was computed with several additions and several removals.
C5_Witness ==
    /\ DiffDone
    /\ Len(to_add) >= 2
    /\ Len(to_remove) >= 2
    /\ Desired \cap Current # {}

\* C6 as claimed: whenever the desired list is longer than the limit, an alert
\* is handed to send_slack_alert, the run ends with exit status 1 and no
\* mutating call was issued.  (Stated for the runs that reach the limit check
\* of line 165: both reads succeeded and the two lists differ.)
C6_AlwaysAlerts ==
    pc = "done" /\ ReadsDone /\ new_cidrs # current_cidrs /\
    Len(new_cidrs) > AWS_SG_RULE_LIMIT =>
      /\ \E i \in DOMAIN slack : slack[i].kind = "alert"
      /\ exit_status = 1
      /\ calls = <<>>

\* C6 amended: when the desired list is longer than the limit and differs from
\* the current list, the run issues no mutating call and ends with exit status
\* 1, and send_slack_alert is called with the alert exactly when the run is no
\* dry-run; when the two lists are equal the run ends with status 0 and sends
\* nothing.
C6_AlertUnlessDryRun ==
    pc = "done" /\ ReadsDone /\ Len(new_cidrs) > AWS_SG_RULE_LIMIT =>
      /\ calls = <<>>
      /\ sg = sg_start
      /\ IF new_cidrs = current_cidrs
         THEN exit_status = 0 /\ slack = <<>>
         ELSE /\ exit_status = 1
              /\ IF DRY_RUN THEN slack = <<>>
                 ELSE Len(slack) = 1 /\ slack[1].kind = "alert"

\* A run that is no dry-run found the desired list over the limit and its
\* alert was delivered.
C6_Witness ==
    /\ pc = "done"
    /\ ~DRY_RUN
    /\ Len(new_cidrs) > AWS_SG_RULE_LIMIT
    /\ slack = <<[kind |-> "alert", outcome |-> "delivered"]>>
    /\ exit_status = 1

\* The exit status of a run whose message of this kind is delivered: 1 after
\* the alert (sys.exit(1)), 0 after the success message (main returns).
StatusOf(kind) == IF kind = "alert" THEN 1 ELSE 0

\* C7 as claimed: a run that called send_slack_alert ends with the status of
\* the run whose message is delivered, however the call went: delivered,
\* request error, non-ok answer or missing token.  (Stated for the runs that
\* met the limit or went through both mutating blocks.)
C7_FailureKeepsStatus ==
    pc = "done" /\ slack # <<>> /\ path \in {"over_limit", "updated"} =>
       exit_status = StatusOf(slack[1].kind)

\* C7 amended: that holds when the message is delivered, the request fails or
\* the answer is not ok; with no token the run ends with exit status 1.
C7_CaughtFailureKeepsStatus ==
    pc = "done" /\ slack # <<>> =>
      IF slack[1].outcome = "no_token"
      THEN exit_status = 1
      ELSE exit_status = StatusOf(slack[1].kind)

\* The success message could not be delivered and the run ended with 0.
C7_Witness ==
    /\ pc = "done"
    /\ slack = <<[kind |-> "success", outcome |-> "request_error"]>>
    /\ exit_status = 0

Count(s, x) == Cardinality({i \in DOMAIN s : s[i] = x})

ValidIPv4(ip) == Len(ip) = 4 /\ \A k \in 1..4 : ip[k] \in 0..255

\* C8: the list extract_pingdom_region_ipv4 has just returned holds, as often as the feed lists it, "<ip>/32" for
\* every probe of the configured region whose ip is not "NULL", and nothing
\* else; every entry is a valid IPv4 /32 and the list ascends by address.
C8_ExtractExact ==
    pc = "get_sg" =>
      /\ \A c \in Desired \cup {Cidr(probes[i].ip, 32) : i \in DOMAIN probes} :
            Count(new_cidrs, c) =
               Cardinality({i \in DOMAIN probes :
                               /\ probes[i].region = PINGDOM_REGION
                               /\ probes[i].ip # NULL
                               /\ Cidr(probes[i].ip, 32) = c})
      /\ \A i \in DOMAIN new_cidrs :
            new_cidrs[i].prefix = 32 /\ ValidIPv4(new_cidrs[i].ip)
      /\ \A i, j \in DOMAIN new_cidrs :
            i < j => IpToInt(new_cidrs[i].ip) <= IpToInt(new_cidrs[j].ip)

\* The feed held a "NULL" probe, a probe of another region and several active
\* probes of the configured region, the last of them not the greatest.
C8_Witness ==
    /\ pc = "get_sg"
    /\ \E i \in DOMAIN probes : probes[i].ip = NULL
    /\ \E i \in DOMAIN probes : probes[i].region # PINGDOM_REGION
    /\ Len(new_cidrs) >= 2
    /\ \E i \in DOMAIN probes :
          /\ i < Len(probes)
          /\ probes[i].region = PINGDOM_REGION
          /\ probes[i].ip # NULL
          /\ Cidr(probes[i].ip, 32) = new_cidrs[Len(new_cidrs)]

\* C9: the success message is delivered only in a run that issued a mutating
\* call, all of whose calls succeeded, that is no dry-run and whose additions
\* and removals are not both empty.
C9_SuccessOnlyAfterMutation ==
    \A i \in DOMAIN slack :
       slack[i].kind = "success" /\ slack[i].outcome = "delivered" =>
         /\ calls # <<>>
         /\ \A j \in DOMAIN calls : calls[j].ok
         /\ ~DRY_RUN
         /\ ~(to_add = <<>> /\ to_remove = <<>>)

\* C10: no authorize call comes before a revoke call, and when the group
\* starts a run with at most AWS_SG_RULE_LIMIT tcp/443 rules it never holds
\* more than that many during or after the run.
C10_NeverOverLimit ==
    /\ \A i, j \in DOMAIN calls :
          i < j => ~(calls[i].op = "authorize" /\ calls[j].op = "revoke")
    /\ Cardinality(sg_start[PermTcp443]) <= AWS_SG_RULE_LIMIT =>
          Cardinality(Rules443) <= AWS_SG_RULE_LIMIT

\* The group held AWS_SG_RULE_LIMIT rules, a stale one was revoked, and the
\* authorize call that followed failed.
C10_Witness ==
    /\ pc = "done"
    /\ path = "authorize_error"
    /\ Len(calls) = 2
    /\ calls[1].op = "revoke"
    /\ calls[1].ok
    /\ Cardinality(sg_start[PermTcp443]) = AWS_SG_RULE_LIMIT
    /\ Cardinality(Desired) = AWS_SG_RULE_LIMIT

=============================================================================
